---- MODULE Spec2Model ----
(***************************************************************************)
(* A model of GBNHost.py: the full-duplex Go-Back-N endpoint, its packet   *)
(* codec (struct.pack / struct.unpack with the format '!iiH?i%is'), its    *)
(* checksum, and the three entry points the Simulator calls.  Two          *)
(* endpoints, A and B, are joined by one FIFO queue per direction.         *)
(* Byte strings are sequences of numbers 0..255; a str payload is a        *)
(* sequence of Unicode code points.                                        *)
(***************************************************************************)
EXTENDS Integers, Sequences, FiniteSets, TLC

VARIABLES
    last_ACKed,            \* [entity -> Int]   self.last_ACKed
    current_seq_number,    \* [entity -> Int]   self.current_seq_number
    app_layer_buffer,      \* [entity -> Seq(payload)]  self.app_layer_buffer
    unACKed_buffer,        \* [entity -> [seq numbers -> bytes]]  self.unACKed_buffer
    expected_seq_number,   \* [entity -> Int]   self.expected_seq_number
    last_ACK_pkt,          \* [entity -> bytes or None]  self.last_ACK_pkt
    net,                   \* [entity -> Seq(bytes)]  packets in flight towards the entity
    timer,                 \* [entity -> BOOLEAN]  the entity's timer is armed
    layer5,                \* [entity -> Seq(payload)]  what to_layer5 was given
    submitted,             \* [entity -> Seq(payload)]  what the application submitted
    last,                  \* the last entry-point call and what it asked of the Simulator
    codec                  \* the codec harness: an input, its packet, its unpacking

vars == <<last_ACKed, current_seq_number, app_layer_buffer, unACKed_buffer,
          expected_seq_number, last_ACK_pkt, net, timer, layer5, submitted,
          last, codec>>

hostVars == <<last_ACKed, current_seq_number, app_layer_buffer, unACKed_buffer,
              expected_seq_number, last_ACK_pkt>>

-----------------------------------------------------------------------------
(* Bounds of the model *)

\* payloads the application submits at A, and at B
MaxSubmit == 4
MaxSubmitPeer == 1
\* the largest sequence number of an inbound data packet
MaxInSeq == 2
\* the largest sequence / acknowledgment number given to create_data_pkt alone,
\* and the longest payload
MaxCodecNum == 2
MaxCodecLen == 2
\* the longest byte sequence given to compute_checksum alone
MaxSumLen == 6

\* GBNHost.__init__(..., window_size)
window_size == 3

Entities == {"A", "B"}

Peer(e) == IF e = "A" THEN "B" ELSE "A"

\* the str payloads of the model: "a" and the non-ASCII "éa"
Payloads == {<<97>>, <<233, 97>>}

SubmitBound(e) == IF e = "A" THEN MaxSubmit ELSE MaxSubmitPeer

\* The bytes of a packet the network may corrupt (1-based): the low byte of the
\* checksum, the ACK flag, the low byte of the payload length, the first byte of
\* the payload.  A corrupted sequence or acknowledgment number is the packet
\* of that number with a corrupted checksum.
CorruptPositions == {10, 11, 15, 16}

\* Python's None, which is no bytes object
None == <<-1>>

-----------------------------------------------------------------------------
(* struct.pack / struct.unpack, network byte order, no padding *)

\* pack('!i', n): four bytes, two's complement, big-endian
PackI(n) == << (n \div 16777216) % 256, (n \div 65536) % 256,
               (n \div 256) % 256, n % 256 >>

\* pack('!H', n)
PackH(n) == << (n \div 256) % 256, n % 256 >>

\* pack('!?', b)
PackBool(b) == << IF b THEN 1 ELSE 0 >>

\* pack('%is' % n, data): data cut to n bytes, or padded with zero bytes
PackS(n, data) ==
    [i \in 1..n |-> IF i <= Len(data) THEN data[i] ELSE 0]

\* unpack('!i', b)[0] for a four-byte b
UnpackI(b) ==
    (IF b[1] >= 128 THEN b[1] - 256 ELSE b[1]) * 16777216
        + b[2] * 65536 + b[3] * 256 + b[4]

\* unpack('!H', b)[0] for a two-byte b
UnpackH(b) == b[1] * 256 + b[2]

\* the Python slice b[lo:hi] (0-based, hi exclusive)
Slice(b, lo, hi) ==
    IF lo >= Len(b) THEN <<>>
    ELSE SubSeq(b, lo + 1, IF hi < Len(b) THEN hi ELSE Len(b))

\* str.encode(): UTF-8, one code point
EncodeChar(c) ==
    IF c < 128 THEN <<c>>
    ELSE IF c < 2048 THEN << 192 + (c \div 64), 128 + (c % 64) >>
    ELSE << 224 + (c \div 4096), 128 + ((c \div 64) % 64), 128 + (c % 64) >>

RECURSIVE Encode(_)
Encode(s) == IF s = <<>> THEN <<>> ELSE EncodeChar(Head(s)) \o Encode(Tail(s))

IsCont(b) == b >= 128 /\ b <= 191

\* the number of bytes of the well-formed UTF-8 sequence b starts with, 0 if none
Utf8Width(b) ==
    IF b[1] < 128 THEN 1
    ELSE IF b[1] >= 194 /\ b[1] <= 223
        THEN IF Len(b) >= 2 /\ IsCont(b[2]) THEN 2 ELSE 0
    ELSE IF b[1] >= 224 /\ b[1] <= 239
        THEN IF /\ Len(b) >= 3 /\ IsCont(b[2]) /\ IsCont(b[3])
                /\ (b[1] = 224 => b[2] >= 160)
                /\ (b[1] = 237 => b[2] <= 159)
             THEN 3 ELSE 0
    ELSE IF b[1] >= 240 /\ b[1] <= 244
        THEN IF /\ Len(b) >= 4 /\ IsCont(b[2]) /\ IsCont(b[3]) /\ IsCont(b[4])
                /\ (b[1] = 240 => b[2] >= 144)
                /\ (b[1] = 244 => b[2] <= 143)
             THEN 4 ELSE 0
    ELSE 0

Utf8Char(b, w) ==
    IF w = 1 THEN b[1]
    ELSE IF w = 2 THEN (b[1] - 192) * 64 + (b[2] - 128)
    ELSE IF w = 3 THEN (b[1] - 224) * 4096 + (b[2] - 128) * 64 + (b[3] - 128)
    ELSE (b[1] - 240) * 262144 + (b[2] - 128) * 4096 + (b[3] - 128) * 64
             + (b[4] - 128)

\* bytes.decode('utf-8') does not raise UnicodeDecodeError
RECURSIVE DecodeOk(_)
DecodeOk(b) ==
    IF b = <<>> THEN TRUE
    ELSE LET w == Utf8Width(b)
         IN  w > 0 /\ DecodeOk(SubSeq(b, w + 1, Len(b)))

\* bytes.decode('utf-8') of a well-formed b
RECURSIVE Decode(_)
Decode(b) ==
    IF b = <<>> THEN <<>>
    ELSE LET w == Utf8Width(b)
         IN  <<Utf8Char(b, w)>> \o Decode(SubSeq(b, w + 1, Len(b)))

-----------------------------------------------------------------------------
(* GBNHost.compute_checksum *)

\* `carry` after the loop: the sum of the 16-bit big-endian words of the
\* even-length pkt from byte i on (1-based)
RECURSIVE WordSum(_, _)
WordSum(pkt, i) ==
    IF i > Len(pkt) THEN 0
    ELSE (pkt[i] * 256 + pkt[i + 1]) + WordSum(pkt, i + 2)

compute_checksum(packet) ==
    LET pkt   == IF Len(packet) % 2 = 0 THEN packet ELSE packet \o <<0>>
        carry == WordSum(pkt, 1)
        res   == (carry % 65536) + (carry \div 65536)
    IN  (-res - 1) % 65536

\* pack('!iiH?i%is' % n, seq_num, ack_num, checksum, is_ACK, n, data)
Pack(seq_num, ack_num, checksum, is_ACK, n, data) ==
    PackI(seq_num) \o PackI(ack_num) \o PackH(checksum) \o PackBool(is_ACK)
        \o PackI(n) \o PackS(n, data)

\* GBNHost.create_data_pkt, with self.last_ACKed passed as lastACKed
create_data_pkt(seq_num, lastACKed, payload) ==
    LET pkt == Pack(seq_num, lastACKed, 0, FALSE, Len(payload), Encode(payload))
        checksum == compute_checksum(pkt)
    IN  Pack(seq_num, lastACKed, checksum, FALSE, Len(payload), Encode(payload))

\* the ACK packet receive_from_network_layer builds
create_ack_pkt(ack_num) ==
    LET ack_pkt  == Pack(0, ack_num, 0, TRUE, 0, <<>>)
        checksum == compute_checksum(ack_pkt)
    IN  Pack(0, ack_num, checksum, TRUE, 0, <<>>)

\* The unpacking at the head of receive_from_network_layer: the fields, or the
\* exception that escapes.
Unpack(byte_data) ==
    LET none == [exc |-> "none", seq_num |-> 0, ack_num |-> 0, checksum_val |-> 0,
                 is_ACK |-> FALSE, payload_length |-> 0, payload |-> <<>>]
    IN
    IF byte_data = None THEN [none EXCEPT !.exc = "TypeError"]
    ELSE IF Len(byte_data) < 15 THEN [none EXCEPT !.exc = "struct.error"]
    ELSE
        LET seq_num        == UnpackI(Slice(byte_data, 0, 4))
            ack_num        == UnpackI(Slice(byte_data, 4, 8))
            checksum_val   == UnpackH(Slice(byte_data, 8, 10))
            is_ACK         == Slice(byte_data, 10, 11)[1] # 0
            payload_length == UnpackI(Slice(byte_data, 11, 15))
            rest           == Slice(byte_data, 15, Len(byte_data))
            hdr == [none EXCEPT !.seq_num = seq_num, !.ack_num = ack_num,
                                !.checksum_val = checksum_val, !.is_ACK = is_ACK,
                                !.payload_length = payload_length]
        IN  IF payload_length < 0 \/ Len(rest) # payload_length
                THEN [hdr EXCEPT !.exc = "struct.error"]
            ELSE IF ~DecodeOk(rest)
                THEN [hdr EXCEPT !.exc = "UnicodeDecodeError"]
            ELSE [hdr EXCEPT !.payload = Decode(rest)]

-----------------------------------------------------------------------------
(* What an entry-point call asks of the Simulator *)

\* the checksum carried by byte_data is the checksum of byte_data with the
\* checksum field zeroed (what a receiver that verified it would test)
ChecksumVerifies(byte_data) ==
    /\ byte_data # None
    /\ Len(byte_data) >= 15
    /\ compute_checksum([i \in 1..Len(byte_data) |->
                            IF i \in {9, 10} THEN 0 ELSE byte_data[i]])
           = UnpackH(Slice(byte_data, 8, 10))

\* what is recorded of the bytes given to receive_from_network_layer
NoPkt == [is_ACK |-> FALSE, seq_num |-> 0, ack_num |-> 0, intact |-> FALSE,
          sized |-> FALSE]

\* byte_data holds the fixed header and as many payload bytes as the header
\* declares
Sized(byte_data) ==
    /\ byte_data # None
    /\ Len(byte_data) >= 15
    /\ UnpackI(Slice(byte_data, 11, 15)) = Len(byte_data) - 15

Seen(byte_data) ==
    LET p == Unpack(byte_data)
    IN  [is_ACK |-> p.is_ACK, seq_num |-> p.seq_num, ack_num |-> p.ack_num,
         intact |-> ChecksumVerifies(byte_data), sized |-> Sized(byte_data)]

\* a call: the entry point, its argument, the packets it passed to to_layer3,
\* the payloads it passed to to_layer5, its start_timer / stop_timer calls,
\* all in order, and the exception it let escape
Call(op, e, payload, pkt, l3, l5, tmr, exc) ==
    [op |-> op, e |-> e, payload |-> payload, pkt |-> pkt, l3 |-> l3, l5 |-> l5,
     tmr |-> tmr, exc |-> exc]

NoCall == Call("init", "A", <<>>, NoPkt, <<>>, <<>>, <<>>, "none")

\* the codec on its own: an input of create_data_pkt, the packet, its unpacking
NoCodec == [stage |-> "idle", seq_num |-> 0, lastACKed |-> 0, payload |-> <<>>,
            pkt |-> <<>>, out |-> Unpack(None), checksum |-> 0]

-----------------------------------------------------------------------------
(* GBNHost *)

Init ==
    /\ last_ACKed = [e \in Entities |-> 0]
    /\ current_seq_number = [e \in Entities |-> 1]
    /\ app_layer_buffer = [e \in Entities |-> <<>>]
    /\ unACKed_buffer = [e \in Entities |-> <<>>]
    /\ expected_seq_number = [e \in Entities |-> 1]
    /\ last_ACK_pkt = [e \in Entities |-> None]
    /\ net = [e \in Entities |-> <<>>]
    /\ timer = [e \in Entities |-> FALSE]
    /\ layer5 = [e \in Entities |-> <<>>]
    /\ submitted = [e \in Entities |-> <<>>]
    /\ last = NoCall
    /\ codec = NoCodec

\* a window test that lets two packets too many through
WindowOpen_TooWide(e) == current_seq_number[e] < last_ACKed[e] + window_size + 2

\* the window test of receive_from_application_layer
WindowOpen(e) == current_seq_number[e] < last_ACKed[e] + window_size

\* the test that arms the timer in receive_from_application_layer
FirstInFlight(e) == current_seq_number[e] - last_ACKed[e] = 1

\* receive_from_application_layer(payload) at e
receive_from_application_layer(e, payload) ==
    IF WindowOpen(e)
    THEN LET pkt == create_data_pkt(current_seq_number[e], last_ACKed[e], payload)
         IN  /\ unACKed_buffer' = [unACKed_buffer EXCEPT
                    ![e] = (current_seq_number[e] :> pkt) @@ @]
             /\ current_seq_number' = [current_seq_number EXCEPT ![e] = @ + 1]
             /\ UNCHANGED <<app_layer_buffer, last_ACKed, expected_seq_number,
                            last_ACK_pkt>>
             /\ last' = Call("app", e, payload, NoPkt, <<pkt>>, <<>>,
                             IF FirstInFlight(e) THEN <<"start">> ELSE <<>>, "none")
    ELSE /\ app_layer_buffer' = [app_layer_buffer EXCEPT ![e] = Append(@, payload)]
         /\ UNCHANGED <<unACKed_buffer, current_seq_number, last_ACKed,
                        expected_seq_number, last_ACK_pkt>>
         /\ last' = Call("app", e, payload, NoPkt, <<>>, <<>>, <<>>, "none")

\* the acceptance test of a data packet
InOrder(e, seq_num) == seq_num = expected_seq_number[e]

\* the acknowledgment number of the ACK built for an accepted data packet p
AckNumberFor(p) == p.ack_num

\* an acceptance test that takes a repeated acknowledgment number for progress
AckProgress_Repeated(e, ack_num) == ack_num >= last_ACKed[e]

\* the acceptance test of an ACK
AckProgress(e, ack_num) == ack_num > last_ACKed[e]

\* the timer calls made for an accepted ACK, base being the new last_ACKed + 1
AckTimerCalls(e, base) ==
    IF base = expected_seq_number[e] THEN <<"stop">> ELSE <<"stop", "start">>

\* a receive_from_network_layer whose ACK branch counts the ACK on the
\* receiver's counter as well
receive_from_network_layer_Confused(e, byte_data) ==
    LET p == Unpack(byte_data)
        seen == Seen(byte_data)
    IN
    IF p.exc # "none"
    THEN /\ UNCHANGED hostVars
         /\ last' = Call("net", e, <<>>, seen, <<>>, <<>>, <<>>, p.exc)
    ELSE IF ~p.is_ACK
    THEN IF InOrder(e, p.seq_num)
         THEN LET ack_pkt == create_ack_pkt(AckNumberFor(p))
              IN  /\ last_ACK_pkt' = [last_ACK_pkt EXCEPT ![e] = ack_pkt]
                  /\ expected_seq_number' = [expected_seq_number EXCEPT ![e] = @ + 1]
                  /\ UNCHANGED <<last_ACKed, current_seq_number, app_layer_buffer,
                                 unACKed_buffer>>
                  /\ last' = Call("net", e, <<>>, seen, <<ack_pkt>>, <<p.payload>>,
                                  <<>>, "none")
         ELSE /\ UNCHANGED hostVars
              /\ last' = Call("net", e, <<>>, seen, <<last_ACK_pkt[e]>>, <<>>,
                              <<>>, "none")
    ELSE IF AckProgress(e, p.ack_num)
    THEN /\ last_ACKed' = [last_ACKed EXCEPT ![e] = @ + 1]
         /\ expected_seq_number' = [expected_seq_number EXCEPT ![e] = @ + 1]
         /\ UNCHANGED <<current_seq_number, app_layer_buffer, unACKed_buffer,
                        last_ACK_pkt>>
         /\ last' = Call("net", e, <<>>, seen, <<>>, <<>>,
                         AckTimerCalls(e, last_ACKed[e] + 2), "none")
    ELSE /\ UNCHANGED hostVars
         /\ last' = Call("net", e, <<>>, seen, <<>>, <<>>, <<>>, "none")

\* receive_from_network_layer(byte_data) at e
receive_from_network_layer(e, byte_data) ==
    LET p == Unpack(byte_data)
        seen == Seen(byte_data)
    IN
    IF p.exc # "none"
    THEN /\ UNCHANGED hostVars
         /\ last' = Call("net", e, <<>>, seen, <<>>, <<>>, <<>>, p.exc)
    ELSE IF ~p.is_ACK
    THEN IF InOrder(e, p.seq_num)
         THEN LET ack_pkt == create_ack_pkt(AckNumberFor(p))
              IN  /\ last_ACK_pkt' = [last_ACK_pkt EXCEPT ![e] = ack_pkt]
                  /\ expected_seq_number' = [expected_seq_number EXCEPT ![e] = @ + 1]
                  /\ UNCHANGED <<last_ACKed, current_seq_number, app_layer_buffer,
                                 unACKed_buffer>>
                  /\ last' = Call("net", e, <<>>, seen, <<ack_pkt>>, <<p.payload>>,
                                  <<>>, "none")
         ELSE /\ UNCHANGED hostVars
              /\ last' = Call("net", e, <<>>, seen, <<last_ACK_pkt[e]>>, <<>>,
                              <<>>, "none")
    ELSE IF AckProgress(e, p.ack_num)
    THEN /\ last_ACKed' = [last_ACKed EXCEPT ![e] = @ + 1]
         /\ UNCHANGED <<current_seq_number, app_layer_buffer, unACKed_buffer,
                        expected_seq_number, last_ACK_pkt>>
         /\ last' = Call("net", e, <<>>, seen, <<>>, <<>>,
                         AckTimerCalls(e, last_ACKed[e] + 2), "none")
    ELSE /\ UNCHANGED hostVars
         /\ last' = Call("net", e, <<>>, seen, <<>>, <<>>, <<>>, "none")

\* timer_interrupt() at e: pass
timer_interrupt(e) ==
    /\ UNCHANGED hostVars
    /\ last' = Call("timer", e, <<>>, NoPkt, <<>>, <<>>, <<>>, "none")

-----------------------------------------------------------------------------
(* The Simulator *)

\* the timer after the start_timer / stop_timer calls tmr, in order
RECURSIVE TimerAfter(_, _)
TimerAfter(armed, tmr) ==
    IF tmr = <<>> THEN armed
    ELSE TimerAfter(Head(tmr) = "start", Tail(tmr))

\* start_timer / stop_timer of the call that e just made
TimerCalls(e, timerNow) ==
    timer' = [timerNow EXCEPT ![e] = TimerAfter(@, last'.tmr)]

\* to_layer5 of the call that e just made
Upcalls(e) ==
    layer5' = [layer5 EXCEPT ![e] = @ \o last'.l5]

\* to_layer3 of the call that e just made: the packets are on their way to the peer
Transmit(e, netNow) ==
    net' = [netNow EXCEPT ![Peer(e)] = @ \o last'.l3]

(* Two endpoints and the network between them *)

\* the application at e has a payload to send
Submit(e, payload) ==
    /\ Len(submitted[e]) < SubmitBound(e)
    /\ submitted' = [submitted EXCEPT ![e] = Append(@, payload)]
    /\ receive_from_application_layer(e, payload)
    /\ Transmit(e, net)
    /\ Upcalls(e)
    /\ TimerCalls(e, timer)
    /\ UNCHANGED codec

\* the packet at the head of the queue towards e arrives as it was sent
Deliver(e) ==
    /\ net[e] # <<>>
    /\ receive_from_network_layer(e, Head(net[e]))
    /\ Transmit(e, [net EXCEPT ![e] = Tail(@)])
    /\ Upcalls(e)
    /\ TimerCalls(e, timer)
    /\ UNCHANGED <<submitted, codec>>

\* the packet at the head of the queue towards e is lost
Drop(e) ==
    /\ net[e] # <<>>
    /\ net' = [net EXCEPT ![e] = Tail(@)]
    /\ UNCHANGED <<hostVars, timer, layer5, submitted, last, codec>>

\* the timer of e expires: it is no longer armed when timer_interrupt runs
Timeout(e) ==
    /\ timer[e]
    /\ timer_interrupt(e)
    /\ Transmit(e, net)
    /\ Upcalls(e)
    /\ TimerCalls(e, [timer EXCEPT ![e] = FALSE])
    /\ UNCHANGED <<submitted, codec>>

NextPair ==
    \/ \E e \in Entities, payload \in Payloads : Submit(e, payload)
    \/ \E e \in Entities : Deliver(e)
    \/ \E e \in Entities : Drop(e)
    \/ \E e \in Entities : Timeout(e)

\* A and B over a network that may lose packets and never alters or reorders them
SpecPair == Init /\ [][NextPair]_vars

(* One endpoint, A, and whatever the network may hand it.  What a call passes  *)
(* to to_layer3 and to_layer5 is what `last` records of it; nothing consumes  *)
(* it, and net and layer5 stay as they are.                                   *)

\* the acknowledgment numbers of the inbound ACKs, and those that the inbound
\* data packets carry
AckNumbers == 0..2
DataAckNumbers == 0..1

\* well-formed packets of a peer; its data packets carry the payload "x"
InboundData ==
    { create_data_pkt(s, a, <<120>>) : s \in 1..MaxInSeq, a \in DataAckNumbers }

InboundAcks == { create_ack_pkt(a) : a \in AckNumbers }

\* pkt with the lowest bit of byte i flipped
Corrupt(pkt, i) ==
    [pkt EXCEPT ![i] = IF @ % 2 = 0 THEN @ + 1 ELSE @ - 1]

\* well-formed packets, and those with one bit flipped
Inbound ==
    LET sent == InboundData \cup InboundAcks
    IN  sent \cup { Corrupt(pkt, i) : pkt \in sent, i \in CorruptPositions \cap 1..15 }
             \cup { Corrupt(pkt, i) : pkt \in InboundData,
                                       i \in CorruptPositions \ 1..15 }

\* GBNHost encodes a payload and never inspects it: the application submits
\* "a", "b", "c", ... in turn, so that every payload is told from the others
NextPayload == << 97 + Len(submitted["A"]) >>

AppCall(payload) ==
    /\ Len(submitted["A"]) < MaxSubmit
    /\ submitted' = [submitted EXCEPT !["A"] = Append(@, payload)]
    /\ receive_from_application_layer("A", payload)
    /\ TimerCalls("A", timer)
    /\ UNCHANGED <<net, layer5, codec>>

NetCall(byte_data) ==
    /\ receive_from_network_layer("A", byte_data)
    /\ TimerCalls("A", timer)
    /\ UNCHANGED <<net, layer5, submitted, codec>>

TimerCall ==
    /\ timer["A"]
    /\ timer_interrupt("A")
    /\ TimerCalls("A", [timer EXCEPT !["A"] = FALSE])
    /\ UNCHANGED <<net, layer5, submitted, codec>>

Next ==
    \/ AppCall(NextPayload)
    \/ \E byte_data \in Inbound : NetCall(byte_data)
    \/ TimerCall

\* A under any sequence of calls of its three entry points
Spec == Init /\ [][Next]_vars

\* one direction of it: the application submits at A only
NextOneWay ==
    \/ \E payload \in Payloads : Submit("A", payload)
    \/ \E e \in Entities : Deliver(e)
    \/ \E e \in Entities : Drop(e)
    \/ \E e \in Entities : Timeout(e)

\* the Simulator works through its event list: a packet on the network that is
\* not lost arrives, an armed timer expires
SpecFair ==
    /\ Init /\ [][NextOneWay]_vars
    /\ \A e \in Entities : WF_vars(Deliver(e)) /\ WF_vars(Timeout(e))

(* create_data_pkt and the unpacking of receive_from_network_layer on their own *)

\* the code points of the payloads: "a", "b", "é"
CodecChars == {97, 98, 233}

CodecPayloads ==
    UNION { [1..n -> CodecChars] : n \in 0..MaxCodecLen }

InitCodec ==
    /\ last_ACKed = [e \in Entities |-> 0]
    /\ current_seq_number = [e \in Entities |-> 1]
    /\ app_layer_buffer = [e \in Entities |-> <<>>]
    /\ unACKed_buffer = [e \in Entities |-> <<>>]
    /\ expected_seq_number = [e \in Entities |-> 1]
    /\ last_ACK_pkt = [e \in Entities |-> None]
    /\ net = [e \in Entities |-> <<>>]
    /\ timer = [e \in Entities |-> FALSE]
    /\ layer5 = [e \in Entities |-> <<>>]
    /\ submitted = [e \in Entities |-> <<>>]
    /\ last = NoCall
    /\ codec \in { [NoCodec EXCEPT !.stage = "input", !.seq_num = s,
                                   !.lastACKed = a, !.payload = payload] :
                       s \in 0..MaxCodecNum, a \in 0..MaxCodecNum,
                       payload \in CodecPayloads }

CodecPack ==
    /\ codec.stage = "input"
    /\ codec' = [codec EXCEPT !.stage = "packed",
                     !.pkt = create_data_pkt(codec.seq_num, codec.lastACKed,
                                             codec.payload)]
    /\ UNCHANGED <<hostVars, net, timer, layer5, submitted, last>>

CodecUnpack ==
    /\ codec.stage = "packed"
    /\ codec' = [codec EXCEPT !.stage = "unpacked", !.out = Unpack(codec.pkt)]
    /\ UNCHANGED <<hostVars, net, timer, layer5, submitted, last>>

NextCodec == CodecPack \/ CodecUnpack

SpecCodec == InitCodec /\ [][NextCodec]_vars

(* compute_checksum on its own *)

\* the bytes of its inputs
SumBytes == {0, 1, 255}

SumInputs == UNION { [1..n -> SumBytes] : n \in 1..MaxSumLen }

InitSum ==
    /\ last_ACKed = [e \in Entities |-> 0]
    /\ current_seq_number = [e \in Entities |-> 1]
    /\ app_layer_buffer = [e \in Entities |-> <<>>]
    /\ unACKed_buffer = [e \in Entities |-> <<>>]
    /\ expected_seq_number = [e \in Entities |-> 1]
    /\ last_ACK_pkt = [e \in Entities |-> None]
    /\ net = [e \in Entities |-> <<>>]
    /\ timer = [e \in Entities |-> FALSE]
    /\ layer5 = [e \in Entities |-> <<>>]
    /\ submitted = [e \in Entities |-> <<>>]
    /\ last = NoCall
    /\ codec \in { [NoCodec EXCEPT !.stage = "bytes", !.pkt = packet] :
                       packet \in SumInputs }

ChecksumCall ==
    /\ codec.stage = "bytes"
    /\ codec' = [codec EXCEPT !.stage = "summed",
                     !.checksum = compute_checksum(codec.pkt)]
    /\ UNCHANGED <<hostVars, net, timer, layer5, submitted, last>>

NextSum == ChecksumCall

SpecSum == InitSum /\ [][NextSum]_vars

-----------------------------------------------------------------------------
(* The claims *)

IsPrefix(s, t) == Len(s) <= Len(t) /\ SubSeq(t, 1, Len(s)) = s

\* the packets of the buffer f, in ascending order of their sequence numbers
RECURSIVE Ascending(_, _)
Ascending(f, keys) ==
    IF keys = {} THEN <<>>
    ELSE LET k == CHOOSE x \in keys : \A y \in keys : x <= y
         IN  <<f[k]>> \o Ascending(f, keys \ {k})

\* C1: at every moment, what an endpoint has handed to to_layer5 is a prefix of
\* what the application submitted at its peer: no gap, no duplicate, no
\* reordering, over a network that loses packets and never reorders them.
C1_InOrderExactlyOnce ==
    \A e \in Entities : IsPrefix(layer5[e], submitted[Peer(e)])

\* C2: every payload submitted at A is eventually handed to to_layer5 at B, when
\* packets that are not lost arrive and armed timers expire.
C2_EventualDelivery ==
    \A i \in 1..MaxSubmit :
        [](Len(submitted["A"]) >= i => <>(Len(layer5["B"]) >= i))

\* C3: next_seq - base never exceeds window_size, base being last_ACKed + 1,
\* and no more than window_size sequence numbers are transmitted and above
\* last_ACKed.
C3_WindowBound ==
    \A e \in Entities :
        /\ current_seq_number[e] - (last_ACKed[e] + 1) <= window_size
        /\ Cardinality({ n \in 1..(current_seq_number[e] - 1) : n > last_ACKed[e] })
               <= window_size

\* C3, its case: an ACK was accepted and the endpoint has since transmitted
\* until its window test refused a payload
C3_Witness ==
    /\ last_ACKed["A"] >= 1
    /\ current_seq_number["A"] = last_ACKed["A"] + window_size
    /\ app_layer_buffer["A"] # <<>>

\* C4: after every call of an entry point the timer is armed exactly when
\* unACKed_buffer is not empty, and timer_interrupt is not called while it is
\* empty.
C4_TimerLifecycle ==
    last.op # "init" =>
        /\ timer[last.e] <=> (DOMAIN unACKed_buffer[last.e] # {})
        /\ last.op = "timer" => DOMAIN unACKed_buffer[last.e] # {}

\* C5: timer_interrupt with packets in unACKed_buffer passes exactly those
\* packets, as they were, to to_layer3 in ascending order of sequence number and
\* restarts the timer.
C5_TimeoutRetransmits ==
    (last.op = "timer" /\ DOMAIN unACKed_buffer[last.e] # {}) =>
        /\ last.l3 = Ascending(unACKed_buffer[last.e], DOMAIN unACKed_buffer[last.e])
        /\ last.tmr = <<"start">>
        /\ timer[last.e]

\* C6: a byte sequence whose payload can be extracted and whose checksum does
\* not verify, given to an endpoint that has sent an ACK, makes it transmit
\* last_ACK_pkt once and nothing else: nothing goes to to_layer5, and the
\* sequence numbers, the buffers, last_ACK_pkt and the timer stay as they were.
C6_CorruptResend ==
    [][ ( /\ last'.op = "net"
          /\ last'.exc = "none"
          /\ ~last'.pkt.intact
          /\ last_ACK_pkt[last'.e] # None )
        => ( /\ last'.l3 = <<last_ACK_pkt[last'.e]>>
             /\ last'.l5 = <<>>
             /\ last'.tmr = <<>>
             /\ UNCHANGED <<hostVars, timer>> ) ]_vars

\* C7: while no ACK has been accepted, each of the first window_size payloads
\* submitted is transmitted at once with the next sequence number, and only the
\* later ones are appended to app_layer_buffer.
C7_WindowCapacity ==
    (last.op = "app" /\ last_ACKed[last.e] = 0) =>
        LET n == Len(submitted[last.e])
        IN  IF n <= window_size
            THEN /\ Len(last.l3) = 1
                 /\ Unpack(last.l3[1]).seq_num = n
                 /\ app_layer_buffer[last.e] = <<>>
            ELSE /\ last.l3 = <<>>
                 /\ app_layer_buffer[last.e] # <<>>

\* the window slots open at e once last_ACKed is acked: window_size less the
\* sequence numbers transmitted and above acked
OpenSlots(e, acked) ==
    LET outstanding == current_seq_number[e] - (acked + 1)
    IN  IF outstanding >= window_size THEN 0 ELSE window_size - outstanding

\* C8: a call that accepts an ACK while app_layer_buffer is not empty takes the
\* buffered payloads from its front, in order, and transmits them with the next
\* sequence numbers, for as long as window slots are open.
C8_PendingDrain ==
    [][ ( /\ last'.op = "net"
          /\ last_ACKed'[last'.e] > last_ACKed[last'.e]
          /\ app_layer_buffer[last'.e] # <<>> )
        => LET e == last'.e
               slots == OpenSlots(e, last_ACKed'[e])
               k == IF Len(app_layer_buffer[e]) < slots
                        THEN Len(app_layer_buffer[e]) ELSE slots
           IN  /\ k >= 1
               /\ app_layer_buffer'[e]
                      = SubSeq(app_layer_buffer[e], k + 1, Len(app_layer_buffer[e]))
               /\ Len(last'.l3) = k
               /\ \A i \in 1..k :
                      /\ Unpack(last'.l3[i]).seq_num = current_seq_number[e] + i - 1
                      /\ Unpack(last'.l3[i]).payload = app_layer_buffer[e][i] ]_vars

\* C9: a well-formed data packet whose sequence number is not
\* expected_seq_number, at an endpoint whose expected_seq_number is 2 or more,
\* is not handed to to_layer5, leaves expected_seq_number and last_ACK_pkt as
\* they were, and makes the endpoint transmit one packet: the ACK of
\* expected_seq_number - 1.
C9_OutOfOrderData ==
    [][ ( /\ last'.op = "net"
          /\ last'.exc = "none"
          /\ last'.pkt.intact
          /\ ~last'.pkt.is_ACK
          /\ last'.pkt.seq_num # expected_seq_number[last'.e]
          /\ expected_seq_number[last'.e] >= 2 )
        => LET e == last'.e
           IN  /\ last'.l5 = <<>>
               /\ expected_seq_number'[e] = expected_seq_number[e]
               /\ last_ACK_pkt'[e] = last_ACK_pkt[e]
               /\ Len(last'.l3) = 1
               /\ Unpack(last'.l3[1]).exc = "none"
               /\ Unpack(last'.l3[1]).is_ACK
               /\ Unpack(last'.l3[1]).ack_num = expected_seq_number[e] - 1 ]_vars

\* C10: unpacking what create_data_pkt packed gives back the sequence number,
\* the ACK flag false, the length of the payload and the payload, and the
\* checksum in the packet is the checksum of the packet with that field zeroed.
C10_CodecRoundTrip ==
    codec.stage = "unpacked" =>
        /\ codec.out.exc = "none"
        /\ codec.out.seq_num = codec.seq_num
        /\ codec.out.is_ACK = FALSE
        /\ codec.out.payload_length = Len(codec.out.payload)
        /\ codec.out.payload = codec.payload
        /\ ChecksumVerifies(codec.pkt)

\* C11: a call that accepts a well-formed data packet of sequence number s
\* builds one ACK, stores it as last_ACK_pkt and transmits it, and that ACK has
\* sequence number 0, the ACK flag, payload length 0 and acknowledgment number
\* s, which is expected_seq_number - 1 once the call is over.
C11_AckOfAccepted ==
    ( /\ last.op = "net"
      /\ last.exc = "none"
      /\ last.pkt.intact
      /\ ~last.pkt.is_ACK
      /\ last.l5 # <<>> )
    => LET ack == Unpack(last_ACK_pkt[last.e])
       IN  /\ last.l3 = <<last_ACK_pkt[last.e]>>
           /\ ack.exc = "none"
           /\ ack.seq_num = 0
           /\ ack.is_ACK
           /\ ack.payload_length = 0
           /\ ack.ack_num = last.pkt.seq_num
           /\ ack.ack_num = expected_seq_number[last.e] - 1

\* C12: a call given a well-formed ACK of acknowledgment number n, with
\* base <= n < next_seq (base being last_ACKed + 1), leaves last_ACKed = n and
\* removes from unACKed_buffer every sequence number up to n, so that the keys
\* of unACKed_buffer are the sequence numbers transmitted and above last_ACKed.
C12_CumulativeAck ==
    [][ ( /\ last'.op = "net"
          /\ last'.exc = "none"
          /\ last'.pkt.intact
          /\ last'.pkt.is_ACK
          /\ last'.pkt.ack_num >= last_ACKed[last'.e] + 1
          /\ last'.pkt.ack_num < current_seq_number[last'.e] )
        => LET e == last'.e
               n == last'.pkt.ack_num
           IN  /\ last_ACKed'[e] = n
               /\ DOMAIN unACKed_buffer'[e]
                      = { k \in DOMAIN unACKed_buffer[e] : k > n }
               /\ DOMAIN unACKed_buffer'[e]
                      = (last_ACKed'[e] + 1)..(current_seq_number'[e] - 1) ]_vars

\* C13: a call given a well-formed ACK that makes progress on what was
\* transmitted (last_ACKed < n < current_seq_number) stops the timer and leaves
\* it disarmed when nothing is outstanding afterwards (base = next_seq, base
\* being last_ACKed + 1), and otherwise ends by starting it again.
C13_AckTimerDecision ==
    [][ ( /\ last'.op = "net"
          /\ last'.exc = "none"
          /\ last'.pkt.intact
          /\ last'.pkt.is_ACK
          /\ last'.pkt.ack_num > last_ACKed[last'.e]
          /\ last'.pkt.ack_num < current_seq_number[last'.e] )
        => LET e == last'.e
           IN  IF last_ACKed'[e] + 1 = current_seq_number'[e]
               THEN last'.tmr = <<"stop">> /\ ~timer'[e]
               ELSE /\ last'.tmr # <<>>
                    /\ last'.tmr[Len(last'.tmr)] = "start"
                    /\ timer'[e] ]_vars

\* C14: while no data packet has been accepted (expected_seq_number = 1),
\* last_ACK_pkt is a well-formed ACK packet of acknowledgment number 0, and a
\* call given a well-formed data packet of another sequence number transmits
\* that packet and nothing else.
C14_InitialAck ==
    /\ \A e \in Entities :
           expected_seq_number[e] = 1 =>
               LET ack == Unpack(last_ACK_pkt[e])
               IN  /\ ack.exc = "none"
                   /\ ack.is_ACK
                   /\ ack.ack_num = 0
                   /\ ChecksumVerifies(last_ACK_pkt[e])
    /\ ( /\ last.op = "net"
         /\ last.exc = "none"
         /\ last.pkt.intact
         /\ ~last.pkt.is_ACK
         /\ last.pkt.seq_num # 1
         /\ expected_seq_number[last.e] = 1 )
       => /\ last.l3 = <<last_ACK_pkt[last.e]>>
          /\ last.l3[1] # None

\* C15: a call given bytes whose declared payload length is not the number of
\* payload bytes present, at an endpoint that has sent an ACK, lets no
\* exception escape, transmits last_ACK_pkt once, hands nothing to to_layer5
\* and leaves the sequence numbers, the buffers, last_ACK_pkt and the timer as
\* they were.
C15_TruncatedPacket ==
    [][ ( /\ last'.op = "net"
          /\ ~last'.pkt.sized
          /\ last_ACK_pkt[last'.e] # None )
        => ( /\ last'.exc = "none"
             /\ last'.l3 = <<last_ACK_pkt[last'.e]>>
             /\ last'.l5 = <<>>
             /\ last'.tmr = <<>>
             /\ UNCHANGED <<hostVars, timer>> ) ]_vars

\* C16: a call given a well-formed ACK whose acknowledgment number does not
\* exceed last_ACKed changes none of last_ACKed, current_seq_number,
\* unACKed_buffer, app_layer_buffer, expected_seq_number and last_ACK_pkt, calls
\* neither start_timer nor stop_timer, and passes nothing to to_layer3 or
\* to_layer5.
C16_StaleAck ==
    [][ ( /\ last'.op = "net"
          /\ last'.pkt.intact
          /\ last'.pkt.sized
          /\ last'.pkt.is_ACK
          /\ last'.pkt.ack_num <= last_ACKed[last'.e] )
        => ( /\ last'.exc = "none"
             /\ last'.l3 = <<>>
             /\ last'.l5 = <<>>
             /\ last'.tmr = <<>>
             /\ UNCHANGED <<hostVars, timer>> ) ]_vars

\* C16, its case: with the timer armed and packets transmitted, an ACK that
\* repeats an acknowledgment number already counted has been processed
C16_Witness ==
    /\ last.op = "net"
    /\ last.pkt.intact
    /\ last.pkt.is_ACK
    /\ last.pkt.ack_num >= 1
    /\ last.pkt.ack_num <= last_ACKed[last.e]
    /\ DOMAIN unACKed_buffer[last.e] # {}
    /\ timer[last.e]

\* C17: a call given a well-formed ACK packet leaves expected_seq_number and
\* last_ACK_pkt as they were and passes nothing to to_layer5; a call given a
\* well-formed data packet leaves last_ACKed, current_seq_number,
\* unACKed_buffer and app_layer_buffer as they were and calls neither
\* start_timer nor stop_timer.
C17_BranchFrames ==
    [][ ( /\ last'.op = "net"
          /\ last'.pkt.intact
          /\ last'.pkt.sized )
        => IF last'.pkt.is_ACK
           THEN /\ UNCHANGED <<expected_seq_number, last_ACK_pkt>>
                /\ last'.l5 = <<>>
           ELSE /\ UNCHANGED <<last_ACKed, current_seq_number, unACKed_buffer,
                               app_layer_buffer, timer>>
                /\ last'.tmr = <<>> ]_vars

\* C17, its case: an endpoint that has accepted a data packet and transmitted
\* packets of its own has just counted an ACK
C17_Witness ==
    /\ last.op = "net"
    /\ last.pkt.intact
    /\ last.pkt.is_ACK
    /\ last.tmr # <<>>
    /\ expected_seq_number[last.e] >= 2
    /\ last_ACK_pkt[last.e] # None
    /\ DOMAIN unACKed_buffer[last.e] # {}

\* C18: after every call of an entry point, app_layer_buffer is not empty only
\* if the window test refuses a new payload, so that a call which transmits a
\* newly submitted payload leaves no earlier payload waiting in
\* app_layer_buffer.
C18_PendingImpliesFull ==
    last.op # "init" =>
        /\ \A e \in Entities : app_layer_buffer[e] # <<>> => ~WindowOpen(e)
        /\ (last.op = "app" /\ last.l3 # <<>>) => app_layer_buffer[last.e] = <<>>

\* C19: in every reachable state last_ACKed is below current_seq_number: no
\* sequence number counts as acknowledged that was not transmitted, whatever
\* acknowledgment numbers the inbound ACKs carry.
C19_AckedBelowSent ==
    \A e \in Entities : last_ACKed[e] < current_seq_number[e]

\* the carries of a sum folded until none remains
RECURSIVE Fold(_)
Fold(sum) ==
    IF sum < 65536 THEN sum ELSE Fold((sum % 65536) + (sum \div 65536))

\* the one's-complement sum of the 16-bit big-endian words of the even-length
\* pkt from byte i on
RECURSIVE OnesSum(_, _)
OnesSum(pkt, i) ==
    IF i > Len(pkt) THEN 0
    ELSE Fold((pkt[i] * 256 + pkt[i + 1]) + OnesSum(pkt, i + 2))

\* the Internet checksum of a byte sequence
InternetChecksum(packet) ==
    LET pkt == IF Len(packet) % 2 = 0 THEN packet ELSE packet \o <<0>>
    IN  65535 - OnesSum(pkt, 1)

\* C20: for every byte sequence of one byte or more, compute_checksum returns
\* the 16-bit one's complement of the one's-complement sum of its big-endian
\* 16-bit words, an odd-length input padded with one zero byte and the carries
\* folded until none remains.
C20_ChecksumArithmetic ==
    codec.stage = "summed" => codec.checksum = InternetChecksum(codec.pkt)

====
